---- MODULE Spec2Model ----
(***************************************************************************)
(* Import paths, imported modules and import options of                   *)
(* include/swift/AST/Import.h, as a state machine over the objects the     *)
(* header defines: an ImportPath::Builder buffer, a vector of              *)
(* ImportedModule values, an ImportOptions set, and the last call made on  *)
(* them with its outcome.  The build modelled is the one with assertions   *)
(* enabled: a failed assert ends the call with AssertFail.                 *)
(***************************************************************************)
EXTENDS Integers, Sequences, FiniteSets, TLC

VARIABLES scratch, lhs, rhs, imports, options, call

vars == <<scratch, lhs, rhs, imports, options, call>>

---------------------------------------------------------------------------
\* Bounds of the model.

\* Longest buffer an ImportPath::Builder holds.
MaxLen == 3

\* Longest operand of the path comparison operators.
MaxCmpLen == 2

\* Largest valid source location (0 is the invalid SourceLoc()).
MaxLoc == 1

\* Most entries in the vector handed to removeDuplicates.
MaxImports == 4

---------------------------------------------------------------------------
\* Values.

\* Interned identifiers: equal names are the same Identifier.
Identifiers == {1, 2}

SourceLocs == 0..MaxLoc

\* Located<Identifier>
ImportPathElement == [Item : Identifiers, Loc : SourceLocs]

\* Address of a Builder's buffer, and of some other storage.
ScratchBase == 10

OtherBase == ScratchBase + 10

\* llvm::ArrayRef<ImportPathElement>: a pointer and the elements it covers.
ImportPathRaw(d, es) == [data |-> d, elems |-> es]

\* The ArrayRef built from {}: no storage, no elements.
EmptyRaw == ImportPathRaw(0, <<>>)

size(raw) == Len(raw.elems)

empty(raw) == Len(raw.elems) = 0

front(raw) == raw.elems[1]

\* Outcome of a call: a value, or a failed assertion.
Ok(v) == [ok |-> TRUE, val |-> v]

AssertFail == [ok |-> FALSE]

\* Run F on the value of res, unless an assertion has already failed.
Then(res, F(_)) == IF res.ok THEN F(res.val) ELSE AssertFail

NoCall == [op |-> "none"]

NoOperand == [variant |-> "none"]

---------------------------------------------------------------------------
\* llvm::ArrayRef slicing, as the header uses it.

drop_back(raw) ==
    IF size(raw) >= 1
    THEN Ok(ImportPathRaw(raw.data, SubSeq(raw.elems, 1, size(raw) - 1)))
    ELSE AssertFail

take_back(raw) ==
    IF size(raw) >= 1
    THEN Ok(ImportPathRaw(raw.data + size(raw) - 1,
                          SubSeq(raw.elems, size(raw), size(raw))))
    ELSE AssertFail

drop_front(raw) ==
    IF size(raw) >= 1
    THEN Ok(ImportPathRaw(raw.data + 1, SubSeq(raw.elems, 2, size(raw))))
    ELSE AssertFail

---------------------------------------------------------------------------
\* The three path variants: constructors with their assertions.

\* ImportPath::Access::Access(Raw)
Access(raw) == IF size(raw) <= 1 THEN Ok(raw) ELSE AssertFail

\* ImportPath::Access::Access()
AccessDefault == Ok(EmptyRaw)

\* ImportPath::Module::Module(Raw)
Module(raw) == IF size(raw) >= 1 THEN Ok(raw) ELSE AssertFail

\* ImportPath::ImportPath(Raw)
ImportPath(raw) == IF size(raw) >= 1 THEN Ok(raw) ELSE AssertFail

Variants == {"ImportPath", "Module", "Access"}

\* Subclass(raw) of ImportPathBase<Subclass>
Subclass(variant, raw) ==
    CASE variant = "ImportPath" -> ImportPath(raw)
      [] variant = "Module" -> Module(raw)
      [] variant = "Access" -> Access(raw)

\* ImportPathBuilder<Subclass>::get()
get(variant, buf) == Subclass(variant, ImportPathRaw(ScratchBase, buf))

---------------------------------------------------------------------------
\* ImportPathBase<Subclass>

\* Located<Identifier> equality: the identifier and the source location.
ElementEq(l, r) == l.Item = r.Item /\ l.Loc = r.Loc

\* ImportPathBase::operator==: ArrayRef equality, element by element.
operatorEq(a, b) ==
    /\ size(a) = size(b)
    /\ \A i \in 1..size(a) : ElementEq(a.elems[i], b.elems[i])

isSameAs_Strict(a, b) ==
    /\ size(a) = size(b)
    /\ \A i \in 1..size(a) : ElementEq(a.elems[i], b.elems[i])

isSameAs_SizeOnly(a, b) == size(a) = size(b)

\* ImportPathBase::isSameAs: the same identifiers in the same order.
isSameAs(a, b) ==
    /\ size(a) = size(b)
    /\ \A i \in 1..size(a) : a.elems[i].Item = b.elems[i].Item

\* ImportPathBase::getParentPath, on a view of the given variant.
getParentPath(variant, raw) ==
    IF ~(size(raw) >= 0)
    THEN AssertFail
    ELSE Then(drop_back(raw), LAMBDA r : Subclass(variant, r))

---------------------------------------------------------------------------
\* ImportPath::Access and ImportPath::Module

\* DeclName: a base name, alone (simple) or with argument labels (compound).
DeclNames == [base : Identifiers, compound : BOOLEAN]

\* DeclName(Identifier): the simple name.
DeclName(id) == [base |-> id, compound |-> FALSE]

\* DeclName::matchesRef: identical names match; a simple reference matches
\* by base name; nothing else matches.
matchesRef(self, ref) ==
    IF self = ref THEN TRUE
    ELSE IF ~ref.compound THEN ref.base = self.base
    ELSE FALSE

matches_NonEmptyOnly(access, name) ==
    ~empty(access) /\ matchesRef(DeclName(front(access).Item), name)

\* ImportPath::Access::matches
matches(access, name) ==
    empty(access) \/ matchesRef(DeclName(front(access).Item), name)

hasSubmodule_NonEmpty(module) == size(module) # 0

\* ImportPath::Module::hasSubmodule
hasSubmodule(module) == size(module) # 1

\* ImportPath::Module::getSubmodulePath
getSubmodulePath(module) == drop_front(module)

---------------------------------------------------------------------------
\* ImportPath: the split into a module path and an access path.

ImportKind_Module == 0

ImportKind_Func == 7

ImportKinds == ImportKind_Module..ImportKind_Func

getModulePath_Whole(path, isScoped) == Module(path)

\* ImportPath::getModulePath(bool isScoped)
getModulePath(path, isScoped) ==
    IF isScoped
    THEN Then(drop_back(path), Module)
    ELSE Module(path)

getAccessPath_NoAssert(path, isScoped) ==
    IF isScoped
    THEN Then(take_back(path), Access)
    ELSE AccessDefault

\* ImportPath::getAccessPath(bool isScoped)
getAccessPath(path, isScoped) ==
    IF isScoped
    THEN IF size(path) >= 2
         THEN Then(take_back(path), Access)
         ELSE AssertFail
    ELSE AccessDefault

\* ImportPath::getModulePath(ImportKind importKind)
getModulePathKind(path, importKind) ==
    getModulePath(path, importKind # ImportKind_Module)

\* ImportPath::getAccessPath(ImportKind importKind)
getAccessPathKind(path, importKind) ==
    getAccessPath(path, importKind # ImportKind_Module)

---------------------------------------------------------------------------
\* Actions on a path builder and the path it yields.

\* ImportPathBuilder::push_back
push_back(elem) ==
    /\ Len(scratch) < MaxLen
    /\ scratch' = Append(scratch, elem)
    /\ call' = NoCall
    /\ UNCHANGED <<lhs, rhs, imports, options>>

\* ImportPathBuilder::pop_back
pop_back ==
    /\ Len(scratch) >= 1
    /\ scratch' = SubSeq(scratch, 1, Len(scratch) - 1)
    /\ call' = NoCall
    /\ UNCHANGED <<lhs, rhs, imports, options>>

\* Builder.get() as an ImportPath, split with a boolean.
Split(isScoped) ==
    /\ call' = [op |-> "split", isScoped |-> isScoped,
                module |-> Then(get("ImportPath", scratch),
                                LAMBDA p : getModulePath(p, isScoped)),
                access |-> Then(get("ImportPath", scratch),
                                LAMBDA p : getAccessPath(p, isScoped))]
    /\ UNCHANGED <<scratch, lhs, rhs, imports, options>>

\* Builder.get() as an ImportPath, split with an ImportKind.
SplitKind(importKind) ==
    /\ call' = [op |-> "splitKind", importKind |-> importKind,
                module |-> Then(get("ImportPath", scratch),
                                LAMBDA p : getModulePathKind(p, importKind)),
                access |-> Then(get("ImportPath", scratch),
                                LAMBDA p : getAccessPathKind(p, importKind))]
    /\ UNCHANGED <<scratch, lhs, rhs, imports, options>>

\* Builder.get() as an Access path, asked whether it matches a name.
CallMatches(name) ==
    /\ call' = [op |-> "matches", name |-> name,
                result |-> Then(get("Access", scratch),
                                LAMBDA a : Ok(matches(a, name)))]
    /\ UNCHANGED <<scratch, lhs, rhs, imports, options>>

\* Builder.get() as a Module path, asked for its submodule part.
CallSubmodule ==
    /\ call' = [op |-> "submodule",
                has |-> Then(get("Module", scratch),
                             LAMBDA m : Ok(hasSubmodule(m))),
                path |-> Then(get("Module", scratch), getSubmodulePath)]
    /\ UNCHANGED <<scratch, lhs, rhs, imports, options>>

\* Builder.get() as any variant, asked for its parent path.
CallGetParentPath(variant) ==
    /\ call' = [op |-> "getParentPath", variant |-> variant,
                result |-> Then(get(variant, scratch),
                                LAMBDA p : getParentPath(variant, p))]
    /\ UNCHANGED <<scratch, lhs, rhs, imports, options>>

PathInit ==
    /\ scratch = <<>>
    /\ lhs = NoOperand
    /\ rhs = NoOperand
    /\ imports = <<>>
    /\ options = 0
    /\ call = NoCall

PathNext ==
    \/ \E elem \in ImportPathElement : push_back(elem)
    \/ pop_back
    \/ \E isScoped \in BOOLEAN : Split(isScoped)
    \/ \E importKind \in ImportKinds : SplitKind(importKind)
    \/ \E name \in DeclNames : CallMatches(name)
    \/ CallSubmodule
    \/ \E variant \in Variants : CallGetParentPath(variant)

PathSpec == PathInit /\ [][PathNext]_vars

---------------------------------------------------------------------------
\* Two paths of one variant, compared.

\* Element sequences of the operands.
CmpSeqs == UNION {[1..n -> ImportPathElement] : n \in 0..MaxCmpLen}

IsPrefix(a, b) == Len(a) <= Len(b) /\ SubSeq(b, 1, Len(a)) = a

\* Two views of one variant: the left one on a builder's buffer, the right one
\* on the same buffer (then both read the same memory) or on other storage.
CompareInit ==
    /\ \E variant \in Variants, a \in CmpSeqs, b \in CmpSeqs,
          d \in {ScratchBase, OtherBase} :
          /\ Subclass(variant, ImportPathRaw(ScratchBase, a)).ok
          /\ Subclass(variant, ImportPathRaw(d, b)).ok
          /\ d = ScratchBase => IsPrefix(a, b) \/ IsPrefix(b, a)
          /\ lhs = [variant |-> variant, raw |-> ImportPathRaw(ScratchBase, a)]
          /\ rhs = [variant |-> variant, raw |-> ImportPathRaw(d, b)]
    /\ scratch = <<>>
    /\ imports = <<>>
    /\ options = 0
    /\ call = NoCall

\* lhs == rhs
CallOperatorEq ==
    /\ call' = [op |-> "operator==", result |-> operatorEq(lhs.raw, rhs.raw)]
    /\ UNCHANGED <<scratch, lhs, rhs, imports, options>>

\* lhs.isSameAs(rhs)
CallIsSameAs ==
    /\ call' = [op |-> "isSameAs", result |-> isSameAs(lhs.raw, rhs.raw)]
    /\ UNCHANGED <<scratch, lhs, rhs, imports, options>>

CompareNext ==
    \/ CallOperatorEq
    \/ CallIsSameAs

CompareSpec == CompareInit /\ [][CompareNext]_vars

---------------------------------------------------------------------------
\* ImportedModule and its DenseMapInfo.

\* ModuleDecl pointers of the loaded modules; 0 is the null pointer.
ModuleDecls == {1, 2}

\* Arena memory holding the elements that access paths view, by address:
\* A at two locations, B, and a second copy of A at the first location.
Arena ==
    <<[Item |-> 1, Loc |-> 0], [Item |-> 1, Loc |-> 1],
      [Item |-> 2, Loc |-> 0], [Item |-> 1, Loc |-> 0]>>

\* The access paths over the arena: the empty one and each one-element view.
ArenaAccessPaths ==
    {EmptyRaw} \cup {ImportPathRaw(d, <<Arena[d]>>) : d \in 1..Len(Arena)}

\* ImportedModule::ImportedModule
ImportedModule(accessPath, importedModule) ==
    IF importedModule # 0
    THEN Ok([accessPath |-> accessPath, importedModule |-> importedModule])
    ELSE AssertFail

\* The ImportedModule values that can be constructed over the arena.
ImportedModules ==
    {ImportedModule(a, m).val : a \in ArenaAccessPaths, m \in ModuleDecls}

\* ImportedModule::operator==
ImportedModule_operatorEq(l, r) ==
    /\ l.importedModule = r.importedModule
    /\ operatorEq(l.accessPath, r.accessPath)

\* llvm::DenseMapInfo<std::pair<size_t, ModuleDecl *>>::getHashValue, kept
\* symbolic: a function of the two components and of nothing else.
pairHash(first, second) == <<first, second>>

getHashValue_WithStorage(val) ==
    pairHash(val.accessPath.data, val.importedModule)

\* DenseMapInfo<ImportedModule>::getHashValue
getHashValue(val) == pairHash(size(val.accessPath), val.importedModule)

\* DenseMapInfo<ImportedModule>::isEqual
isEqual(l, r) ==
    /\ l.importedModule = r.importedModule
    /\ isSameAs(l.accessPath, r.accessPath)

Order_NoLength(l, r) ==
    IF l.importedModule # r.importedModule
    THEN l.importedModule < r.importedModule
    ELSE IF l.accessPath.data # r.accessPath.data
    THEN l.accessPath.data < r.accessPath.data
    ELSE FALSE

\* ImportedModule::Order::operator(): std::less on the module pointers, then
\* on the access paths' begin() pointers, then the sizes.
Order(l, r) ==
    IF l.importedModule # r.importedModule
    THEN l.importedModule < r.importedModule
    ELSE IF l.accessPath.data # r.accessPath.data
    THEN l.accessPath.data < r.accessPath.data
    ELSE size(l.accessPath) < size(r.accessPath)

\* The access paths of keys: those over the arena, and the empty view that
\* begins at an arena address (the parent path of a one-element view).
KeyAccessPaths ==
    ArenaAccessPaths
        \cup {getParentPath("Access", a).val :
                a \in {b \in ArenaAccessPaths : size(b) = 1}}

\* The ImportedModule values compared and hashed as keys.
KeyImportedModules ==
    {ImportedModule(a, m).val : a \in KeyAccessPaths, m \in ModuleDecls}

KeysInit ==
    /\ lhs \in KeyImportedModules
    /\ rhs \in KeyImportedModules
    /\ scratch = <<>>
    /\ imports = <<>>
    /\ options = 0
    /\ call = NoCall

\* lhs == rhs, on ImportedModule values
CallImportedModuleEq ==
    /\ call' = [op |-> "ImportedModule==",
                result |-> ImportedModule_operatorEq(lhs, rhs)]
    /\ UNCHANGED <<scratch, lhs, rhs, imports, options>>

\* A DenseMap probe: hash both keys, compare them.
CallDenseMapInfo ==
    /\ call' = [op |-> "DenseMapInfo",
                hashL |-> getHashValue(lhs),
                hashR |-> getHashValue(rhs),
                isEqual |-> isEqual(lhs, rhs)]
    /\ UNCHANGED <<scratch, lhs, rhs, imports, options>>

\* ImportedModule::Order on lhs, rhs and a third value, every way round that
\* an ordered container compares them.
CallOrder(other) ==
    /\ call' = [op |-> "Order", other |-> other,
                ll |-> Order(lhs, lhs),
                lr |-> Order(lhs, rhs),
                rl |-> Order(rhs, lhs),
                ro |-> Order(rhs, other),
                lo |-> Order(lhs, other)]
    /\ UNCHANGED <<scratch, lhs, rhs, imports, options>>

KeysNext ==
    \/ CallImportedModuleEq
    \/ CallDenseMapInfo
    \/ \E other \in KeyImportedModules : CallOrder(other)

KeysSpec == KeysInit /\ [][KeysNext]_vars

---------------------------------------------------------------------------
\* ImportedModule::removeDuplicates on a vector of imports.

\* std::lexicographical_compare over identifiers, in the order of their text.
RECURSIVE LexLess(_, _)
LexLess(a, b) ==
    IF Len(b) = 0 THEN FALSE
    ELSE IF Len(a) = 0 THEN TRUE
    ELSE IF a[1].Item < b[1].Item THEN TRUE
    ELSE IF b[1].Item < a[1].Item THEN FALSE
    ELSE LexLess(Tail(a), Tail(b))

\* The order removeDuplicates sorts by: the module first, then the
\* identifiers of the access path.
SortLess(l, r) ==
    IF l.importedModule # r.importedModule
    THEN l.importedModule < r.importedModule
    ELSE LexLess(l.accessPath.elems, r.accessPath.elems)

\* Every place x can take in the sorted sequence s that keeps it sorted.
InsertSorted(x, s) ==
    {SubSeq(s, 1, k) \o <<x>> \o SubSeq(s, k + 1, Len(s)) :
        k \in {j \in 0..Len(s) :
                 /\ \A i \in 1..j : ~SortLess(x, s[i])
                 /\ \A i \in (j + 1)..Len(s) : ~SortLess(s[i], x)}}

\* std::sort: any arrangement in which no entry precedes a lesser one (the
\* sort is not stable, so entries that compare equal come in any order).
RECURSIVE SortedArrangements(_)
SortedArrangements(s) ==
    IF Len(s) = 0 THEN {<<>>}
    ELSE UNION {InsertSorted(s[1], t) : t \in SortedArrangements(Tail(s))}

\* The predicate removeDuplicates gives std::unique.
SameImport(l, r) ==
    IF l.importedModule # r.importedModule
    THEN FALSE
    ELSE isSameAs(l.accessPath, r.accessPath)

\* std::unique followed by erase: the first entry of every run is kept.
RECURSIVE Unique(_)
Unique(s) ==
    IF Len(s) <= 1 THEN s
    ELSE LET rest == Unique(Tail(s))
         IN  IF SameImport(s[1], rest[1]) THEN <<s[1]>> \o Tail(rest)
             ELSE <<s[1]>> \o rest

\* ImportedModule::removeDuplicates: the vectors it may leave.
removeDuplicates(vec) == {Unique(t) : t \in SortedArrangements(vec)}

ImportsInit ==
    /\ imports = <<>>
    /\ scratch = <<>>
    /\ lhs = NoOperand
    /\ rhs = NoOperand
    /\ options = 0
    /\ call = NoCall

\* imports.push_back(ImportedModule(accessPath, module))
AddImport(import) ==
    /\ Len(imports) < MaxImports
    /\ imports' = Append(imports, import)
    /\ call' = NoCall
    /\ UNCHANGED <<scratch, lhs, rhs, options>>

\* ImportedModule::removeDuplicates(imports)
CallRemoveDuplicates ==
    /\ imports' \in removeDuplicates(imports)
    /\ call' = [op |-> "removeDuplicates", input |-> imports]
    /\ UNCHANGED <<scratch, lhs, rhs, options>>

ImportsNext ==
    \/ \E import \in ImportedModules : AddImport(import)
    \/ CallRemoveDuplicates

ImportsSpec == ImportsInit /\ [][ImportsNext]_vars

---------------------------------------------------------------------------
\* ImportOptions and AttributedImport.

Exported == 1

Testable == 2

PrivateImport == 4

ImplementationOnly == 8

SPIAccessControl == 16

Reserved == 128

ImportFlags ==
    {Exported, Testable, PrivateImport, ImplementationOnly, SPIAccessControl,
     Reserved}

RECURSIVE BitAnd(_, _)
BitAnd(a, b) ==
    IF a = 0 \/ b = 0 THEN 0
    ELSE (a % 2) * (b % 2) + 2 * BitAnd(a \div 2, b \div 2)

\* OptionSet::contains(flag): every bit of the flag is in the set.
contains(set, flag) == BitAnd(set, flag) = flag

\* OptionSet::operator|=
OptionsUnion(set, flag) == set + flag - BitAnd(set, flag)

\* OptionSet::operator-=
OptionsMinus(set, flag) == set - BitAnd(set, flag)

AttributedImport_NoReserved(module, opts) ==
    IF ~(contains(opts, Exported) /\ contains(opts, ImplementationOnly))
    THEN Ok([module |-> module, importOptions |-> opts])
    ELSE AssertFail

\* AttributedImport::AttributedImport, with no filename and no SPI groups
AttributedImport(module, opts) ==
    IF \/ ~(contains(opts, Exported) /\ contains(opts, ImplementationOnly))
       \/ contains(opts, Reserved)
    THEN Ok([module |-> module, importOptions |-> opts])
    ELSE AssertFail

\* Width of uint8_t, the type whose DenseMapInfo supplies the option keys.
UInt8Bits == 8

\* llvm::DenseMapInfo<uint8_t>::getEmptyKey: ~0
UnsignedDMI_getEmptyKey == 2 ^ UInt8Bits - 1

\* llvm::DenseMapInfo<uint8_t>::getTombstoneKey: ~0 - 1
UnsignedDMI_getTombstoneKey == 2 ^ UInt8Bits - 1 - 1

\* The largest value of a signed 8-bit key.
ImportOptions_getEmptyKey_Signed == 2 ^ (UInt8Bits - 1) - 1

\* DenseMapInfo<ImportOptions>::getEmptyKey
ImportOptions_getEmptyKey == UnsignedDMI_getEmptyKey

\* DenseMapInfo<ImportOptions>::getTombstoneKey
ImportOptions_getTombstoneKey == UnsignedDMI_getTombstoneKey

\* llvm::DenseMapInfo<ModuleDecl *>::getEmptyKey and getTombstoneKey: two
\* pointers that are neither null nor the address of a module.
ModuleDecl_getEmptyKey == -1

ModuleDecl_getTombstoneKey == -2

\* DenseMapInfo<ImportedModule>::getEmptyKey
ImportedModule_getEmptyKey == ImportedModule(EmptyRaw, ModuleDecl_getEmptyKey)

\* DenseMapInfo<ImportedModule>::getTombstoneKey
ImportedModule_getTombstoneKey ==
    ImportedModule(EmptyRaw, ModuleDecl_getTombstoneKey)

\* DenseMapInfo<AttributedImport<ImportedModule>>::getEmptyKey
AttributedImport_getEmptyKey ==
    Then(ImportedModule_getEmptyKey,
         LAMBDA module : AttributedImport(module, ImportOptions_getEmptyKey))

\* DenseMapInfo<AttributedImport<ImportedModule>>::getTombstoneKey
AttributedImport_getTombstoneKey ==
    Then(ImportedModule_getTombstoneKey,
         LAMBDA module :
             AttributedImport(module, ImportOptions_getTombstoneKey))

OptionsInit ==
    /\ options = 0
    /\ scratch = <<>>
    /\ lhs = NoOperand
    /\ rhs = NoOperand
    /\ imports = <<>>
    /\ call = NoCall

\* options |= flag
AddFlag(flag) ==
    /\ options' = OptionsUnion(options, flag)
    /\ call' = NoCall
    /\ UNCHANGED <<scratch, lhs, rhs, imports>>

\* options -= flag
RemoveFlag(flag) ==
    /\ options' = OptionsMinus(options, flag)
    /\ call' = NoCall
    /\ UNCHANGED <<scratch, lhs, rhs, imports>>

\* AttributedImport<ModuleDecl *>(module, options)
Construct(module) ==
    /\ call' = [op |-> "AttributedImport",
                result |-> AttributedImport(module, options)]
    /\ UNCHANGED <<scratch, lhs, rhs, imports, options>>

\* DenseMapInfo<AttributedImport<ImportedModule>>::getEmptyKey()
CallGetEmptyKey ==
    /\ call' = [op |-> "getEmptyKey",
                key |-> ImportOptions_getEmptyKey,
                result |-> AttributedImport_getEmptyKey]
    /\ UNCHANGED <<scratch, lhs, rhs, imports, options>>

\* DenseMapInfo<AttributedImport<ImportedModule>>::getTombstoneKey()
CallGetTombstoneKey ==
    /\ call' = [op |-> "getTombstoneKey",
                key |-> ImportOptions_getTombstoneKey,
                result |-> AttributedImport_getTombstoneKey]
    /\ UNCHANGED <<scratch, lhs, rhs, imports, options>>

OptionsNext ==
    \/ CallGetEmptyKey
    \/ CallGetTombstoneKey
    \/ \E flag \in ImportFlags : AddFlag(flag)
    \/ \E flag \in ImportFlags : RemoveFlag(flag)
    \/ \E module \in ModuleDecls : Construct(module)

OptionsSpec == OptionsInit /\ [][OptionsNext]_vars

---------------------------------------------------------------------------
\* What a path looks like to a reader: its identifiers, its locations.

Ids(es) == [i \in 1..Len(es) |-> es[i].Item]

Locs(es) == [i \in 1..Len(es) |-> es[i].Loc]

DropLast(es) == SubSeq(es, 1, Len(es) - 1)

\* C1: for an ImportPath p and isScoped (size(p) >= 2 when scoped), the
\* module path's elements followed by the access path's elements are p's
\* elements, names and locations; scoped, the access path has one element and
\* the module path size(p)-1; not scoped, the access path is empty and the
\* module path strictly equals p.
C1_SplitLossless ==
    (/\ call.op = "split"
     /\ Len(scratch) >= 1
     /\ (call.isScoped => Len(scratch) >= 2))
    => /\ call.module.ok
       /\ call.access.ok
       /\ call.module.val.elems \o call.access.val.elems = scratch
       /\ IF call.isScoped
          THEN /\ size(call.access.val) = 1
               /\ size(call.module.val) = Len(scratch) - 1
          ELSE /\ size(call.access.val) = 0
               /\ Ids(call.module.val.elems) = Ids(scratch)
               /\ Locs(call.module.val.elems) = Locs(scratch)

C1_Witness ==
    /\ call.op = "split"
    /\ call.isScoped
    /\ Len(scratch) = 3
    /\ call.module.ok
    /\ call.access.ok
    /\ size(call.module.val) = 2

\* C3: an empty access path matches every name; a one-element access path
\* matches a name equal to its single identifier and no other name.
C3_Matches ==
    (call.op = "matches" /\ call.result.ok)
    => /\ Len(scratch) = 0 => call.result.val = TRUE
       /\ Len(scratch) = 1 =>
            (call.result.val <=> call.name = DeclName(scratch[1].Item))

C3_Witness ==
    /\ call.op = "matches"
    /\ Len(scratch) = 1
    /\ call.result.ok
    /\ call.name.base = scratch[1].Item
    /\ call.name.compound
    /\ call.result.val = FALSE

\* C8: for a constructible module path, hasSubmodule() is true exactly when
\* its size exceeds 1, and getSubmodulePath() is its elements after the first.
C8_Submodule ==
    (call.op = "submodule" /\ get("Module", scratch).ok)
    => /\ call.has.ok
       /\ call.has.val <=> Len(scratch) > 1
       /\ call.path.ok
       /\ call.path.val.elems = Tail(scratch)

C8_Witness ==
    /\ call.op = "submodule"
    /\ Len(scratch) = 3
    /\ call.has.ok
    /\ call.has.val
    /\ Len(call.path.val.elems) = 2

\* C9: getParentPath() on any path view, of any variant, returns the view
\* without its last element and fails no assertion; on an empty view it
\* returns an empty view.
C9_ParentPathNeverFails ==
    (call.op = "getParentPath" /\ get(call.variant, scratch).ok)
    => /\ call.result.ok
       /\ call.result.val.elems = DropLast(scratch)

\* C10: a scoped split of an ImportPath of size 1 fails an assertion in both
\* halves, with a boolean or with an ImportKind other than Module; no call
\* returns an access path of more than one element or a module path of none.
C10_ScopedSplitFailsFast ==
    /\ (call.op = "split" /\ call.isScoped /\ Len(scratch) = 1)
       => ~call.module.ok /\ ~call.access.ok
    /\ (call.op = "splitKind" /\ call.importKind # ImportKind_Module
        /\ Len(scratch) = 1)
       => ~call.module.ok /\ ~call.access.ok
    /\ call.op \in {"split", "splitKind"}
       => /\ call.access.ok => size(call.access.val) <= 1
          /\ call.module.ok => size(call.module.val) >= 1
    /\ (call.op = "getParentPath" /\ call.result.ok)
       => /\ call.variant = "Access" => size(call.result.val) <= 1
          /\ call.variant = "Module" => size(call.result.val) >= 1

C10_Witness ==
    /\ call.op = "splitKind"
    /\ call.importKind = ImportKind_Func
    /\ Len(scratch) = 1
    /\ ~call.module.ok
    /\ ~call.access.ok

\* C2: isSameAs is true exactly when the two paths have equal length and
\* pairwise equal identifiers; for two paths with the same identifiers in the
\* same order that differ in a source location, isSameAs is true and the
\* strict operator== is false.
C2_SameAsVersusStrict ==
    /\ call.op = "isSameAs"
       => (call.result <=> Ids(lhs.raw.elems) = Ids(rhs.raw.elems))
    /\ (/\ call.op = "operator=="
        /\ Ids(lhs.raw.elems) = Ids(rhs.raw.elems)
        /\ Locs(lhs.raw.elems) # Locs(rhs.raw.elems))
       => call.result = FALSE

C2_Witness ==
    /\ call.op = "operator=="
    /\ Len(lhs.raw.elems) = 2
    /\ Ids(lhs.raw.elems) = Ids(rhs.raw.elems)
    /\ Locs(lhs.raw.elems) # Locs(rhs.raw.elems)
    /\ call.result = FALSE

\* Whether a flag's bit is set in a raw option value.
Bit(raw, flag) == (raw \div flag) % 2 = 1

\* C5: constructing an AttributedImport passes its check exactly when the
\* options do not hold both Exported and ImplementationOnly, or hold Reserved.
C5_ConstructionCheck ==
    call.op = "AttributedImport"
    => (call.result.ok <=>
          \/ ~(Bit(options, Exported) /\ Bit(options, ImplementationOnly))
          \/ Bit(options, Reserved))

C5_Witness ==
    /\ call.op = "AttributedImport"
    /\ Bit(options, Exported)
    /\ Bit(options, ImplementationOnly)
    /\ Bit(options, Reserved)
    /\ call.result.ok
    /\ call.result.val.importOptions = options

SameKey(l, r) ==
    /\ l.importedModule = r.importedModule
    /\ Ids(l.accessPath.elems) = Ids(r.accessPath.elems)

\* C6: two ImportedModule values with the same module and access paths with
\* the same identifiers hash alike and are isEqual, whatever their source
\* locations and storage; two with different modules are not isEqual; and
\* isEqual values have equal hash values.
C6_HashAdapter ==
    call.op = "DenseMapInfo"
    => /\ SameKey(lhs, rhs) => call.isEqual /\ call.hashL = call.hashR
       /\ lhs.importedModule # rhs.importedModule => ~call.isEqual
       /\ call.isEqual => call.hashL = call.hashR

C6_Witness ==
    /\ call.op = "DenseMapInfo"
    /\ SameKey(lhs, rhs)
    /\ Len(lhs.accessPath.elems) = 1
    /\ Locs(lhs.accessPath.elems) # Locs(rhs.accessPath.elems)
    /\ lhs.accessPath.data # rhs.accessPath.data
    /\ call.isEqual
    /\ call.hashL = call.hashR

\* C7: two ImportedModule values are operator== equal exactly when they have
\* the same module and access paths with the same identifiers, whatever the
\* source locations.
C7_EqualityIsSemantic ==
    call.op = "ImportedModule==" => (call.result <=> SameKey(lhs, rhs))

\* The example vector: (M, A@loc1), (M, A@loc2), (M, B), (N, A).
ExampleImports ==
    <<[accessPath |-> ImportPathRaw(1, <<Arena[1]>>), importedModule |-> 1],
      [accessPath |-> ImportPathRaw(2, <<Arena[2]>>), importedModule |-> 1],
      [accessPath |-> ImportPathRaw(3, <<Arena[3]>>), importedModule |-> 1],
      [accessPath |-> ImportPathRaw(1, <<Arena[1]>>), importedModule |-> 2]>>

\* C4: removeDuplicates leaves no two entries with the same module and access
\* paths of the same identifiers; every entry left was in the input; every
\* input entry has an entry left with its module and its identifiers; the
\* example of four entries leaves exactly three.
C4_RemoveDuplicates ==
    call.op = "removeDuplicates"
    => /\ \A i, j \in 1..Len(imports) :
            SameKey(imports[i], imports[j]) => i = j
       /\ \A i \in 1..Len(imports) :
            \E j \in 1..Len(call.input) : imports[i] = call.input[j]
       /\ \A j \in 1..Len(call.input) :
            \E i \in 1..Len(imports) : SameKey(imports[i], call.input[j])
       /\ call.input = ExampleImports => Len(imports) = 3

C4_Witness ==
    /\ call.op = "removeDuplicates"
    /\ call.input = ExampleImports
    /\ Len(imports) = 3
    /\ imports[1].accessPath.elems[1].Loc = 1

\* What ImportedModule::Order is keyed by.
OrderKey(v) == <<v.importedModule, v.accessPath.data, Len(v.accessPath.elems)>>

\* C11: ImportedModule::Order is a strict total order keyed by (module,
\* access-path storage address, access-path length): irreflexive, asymmetric,
\* transitive; of two values with different keys exactly one precedes the
\* other; of two values with the same key neither does, and they are strictly
\* equal.
C11_OrderIsStrictTotal ==
    call.op = "Order"
    => /\ ~call.ll
       /\ ~(call.lr /\ call.rl)
       /\ (call.lr /\ call.ro) => call.lo
       /\ IF OrderKey(lhs) = OrderKey(rhs)
          THEN /\ ~call.lr
               /\ ~call.rl
               /\ lhs.accessPath.elems = rhs.accessPath.elems
          ELSE call.lr # call.rl

C11_Witness ==
    /\ call.op = "Order"
    /\ lhs.importedModule = rhs.importedModule
    /\ lhs.accessPath.data = rhs.accessPath.data
    /\ Len(lhs.accessPath.elems) = 0
    /\ Len(rhs.accessPath.elems) = 1
    /\ call.lr
    /\ ~call.rl
    /\ call.ro
    /\ call.lo

RECURSIVE SetSum(_)
SetSum(S) ==
    IF S = {} THEN 0
    ELSE LET x == CHOOSE y \in S : TRUE IN x + SetSum(S \ {x})

\* The raw values of the unions of the defined flags.
FlagUnions == {SetSum(S) : S \in SUBSET ImportFlags}

\* What C12 says of both sentinel keys apart from the two checked bits: the
\* raw values 0xFF and 0xFE, distinct, holding Reserved, passing the
\* constructor's check, and no union of the defined flags, the options
\* assembled so far included.
SentinelKeysBypass ==
    /\ ImportOptions_getEmptyKey # ImportOptions_getTombstoneKey
    /\ call.op = "getEmptyKey" => call.key = 255
    /\ call.op = "getTombstoneKey" => call.key = 254
    /\ call.op \in {"getEmptyKey", "getTombstoneKey"}
       => /\ Bit(call.key, Reserved)
          /\ call.result.ok
          /\ call.result.val.importOptions = call.key
          /\ call.key \notin FlagUnions
          /\ call.key # options

\* C12 as stated: the empty key (0xFF) and the tombstone key (0xFE) are
\* distinct, hold Reserved so that building the AttributedImport keys passes
\* the constructor's check even though Exported and ImplementationOnly are
\* both set, and equal no union of the defined flags.
C12_SentinelKeysAsStated ==
    /\ SentinelKeysBypass
    /\ call.op \in {"getEmptyKey", "getTombstoneKey"}
       => Bit(call.key, Exported) /\ Bit(call.key, ImplementationOnly)

\* C12, amended: as stated, except that only the empty key holds both
\* Exported and ImplementationOnly; the tombstone key holds
\* ImplementationOnly without Exported.
C12_SentinelKeys ==
    /\ SentinelKeysBypass
    /\ call.op = "getEmptyKey"
       => Bit(call.key, Exported) /\ Bit(call.key, ImplementationOnly)
    /\ call.op = "getTombstoneKey"
       => ~Bit(call.key, Exported) /\ Bit(call.key, ImplementationOnly)

C12_Witness ==
    /\ call.op = "getEmptyKey"
    /\ call.key = 255
    /\ Bit(call.key, Exported)
    /\ Bit(call.key, ImplementationOnly)
    /\ call.result.ok
    /\ options = Exported + Testable

====
